---- MODULE Spec2Model ----
(***************************************************************************)
(* Model of the authenticating reverse proxy (src/auth/main.go) and of its *)
(* asynchronous logger (package logger, src/unnamed/part_000).             *)
(*                                                                         *)
(* Tasks are goroutines: "main", one per inbound request (Reqs) and, for   *)
(* the logger taken as a library, client goroutines (Clients).  Optional   *)
(* values are sequences of length 0 or 1.                                  *)
(***************************************************************************)
EXTENDS Integers, Sequences, FiniteSets, TLC

\* ------------------------------------------------------------------ bounds
NumReqs == 2        \* concurrently handled inbound requests
NumClients == 2     \* goroutines using the logger as a library
MaxStartCalls == 2  \* StartListener invocations by library clients
MaxSubmit == 2      \* producer calls by library clients (mixed kinds)
MaxBurst == 102     \* producer calls in a one-kind burst

\* ----------------------------------------------------- program constants
QueueCap == 100     \* make(chan ..., 100)

Reqs == 1..NumReqs
Clients == (NumReqs + 1)..(NumReqs + NumClients)
MainTask == 0
Tasks == {MainTask} \cup Reqs \cup Clients

Kinds == <<"error", "warn", "info">>
KindSet == {Kinds[i] : i \in 1..3}

\* error values: nil, or an error carrying a message
NilErr == [isNil |-> TRUE, msg |-> ""]
Err(m) == [isNil |-> FALSE, msg |-> m]

VARIABLES
    proc,       \* "running" | "exited" (log.Fatal -> os.Exit)
    errChan, warnChan, infoChan,   \* Logger's three buffered channels
    once,       \* sync.Once: [done, m] (m: holder of the mutex, <<>> if free)
    startPc,    \* per task: position inside StartListener
    startCalls, \* StartListener invocations so far
    handles,    \* per sink: number of os.OpenFile handles opened
    consumers,  \* spawned consumer goroutines: sequence of [cur]
    sinks,      \* per sink: lines written by its slog.Logger
    stdout,     \* fmt.Println mirror
    sendq,      \* per task: the channel send it is executing (blocked or not)
    sent,       \* per kind: values whose send completed, in completion order
    recv,       \* per kind: values received by a consumer, in receive order
    mainPc,     \* position of func main
    routes,     \* handlers registered on the default mux with http.Handle
    rpc,        \* per request: position of its handling goroutine
    rin,        \* per request: the inbound *http.Request (<<>> before arrival)
    gate,       \* per request: what validateJWT did
    rw,         \* per request: its http.ResponseWriter
    out,        \* per request: the outbound *http.Request (<<>> if none)
    up,         \* per request: the exchange with the upstream
    diag        \* per request: logs.ErrorF calls made by its handler

logVars == <<errChan, warnChan, infoChan, once, startPc, startCalls, handles,
             consumers, sinks, stdout, sendq, sent, recv>>

gwVars == <<mainPc, routes, rpc, rin, gate, rw, out, up, diag>>

vars == <<proc, logVars, gwVars>>

\* ------------------------------------------------------------ fmt helpers
\* fmt.Sprintf restricted to the verb %v: a format is a sequence of pieces,
\* each a literal or the verb; verbs consume args left to right; a verb with
\* no argument left prints %!v(MISSING).
RECURSIVE Sprintf(_, _)
Sprintf(format, args) ==
    IF format = <<>> THEN ""
    ELSE IF Head(format) = "%v"
         THEN IF args = <<>>
              THEN "%!v(MISSING)" \o Sprintf(Tail(format), args)
              ELSE Head(args) \o Sprintf(Tail(format), Tail(args))
         ELSE Head(format) \o Sprintf(Tail(format), args)

\* fmt.Errorf: never nil
Errorf(format, args) == Err(Sprintf(format, args))

\* --------------------------------------------------------------- channels
Chan(k) == CASE k = "error" -> errChan
             [] k = "warn" -> warnChan
             [] k = "info" -> infoChan

SetChan(k, q) ==
    /\ errChan' = IF k = "error" THEN q ELSE errChan
    /\ warnChan' = IF k = "warn" THEN q ELSE warnChan
    /\ infoChan' = IF k = "info" THEN q ELSE infoChan

\* channels made with a buffer of one record
CanSendCapOne(k) == Len(Chan(k)) < 1

\* a buffered channel accepts a send without blocking iff it is not full
CanSend(k) == Len(Chan(k)) < QueueCap

\* NewLogger(): three empty channels of capacity 100, a fresh sync.Once
NewLogger ==
    /\ errChan = <<>>
    /\ warnChan = <<>>
    /\ infoChan = <<>>
    /\ once = [done |-> FALSE, m |-> <<>>]

\* ------------------------------------------------------------- sync.Once
OnceNeverDone == FALSE

\* o.done.Load() != 0
OnceIsDone == once.done

Idle(t) == startPc[t] = "idle" /\ sendq[t] = <<>>

\* a task enters l.StartListener(), i.e. l.once.Do(f)
StartListener(t) ==
    /\ proc = "running"
    /\ Idle(t)
    /\ startPc' = [startPc EXCEPT ![t] = "once_fast"]
    /\ startCalls' = startCalls + 1
    /\ UNCHANGED <<proc, errChan, warnChan, infoChan, once, handles, consumers,
                   sinks, stdout, sendq, sent, recv>>

\* Once.Do fast path: return at once if done, else go to doSlow
OnceFast(t) ==
    /\ proc = "running"
    /\ startPc[t] = "once_fast"
    /\ startPc' = [startPc EXCEPT ![t] = IF OnceIsDone THEN "idle" ELSE "once_lock"]
    /\ UNCHANGED <<proc, errChan, warnChan, infoChan, once, startCalls, handles,
                   consumers, sinks, stdout, sendq, sent, recv>>

\* Once.doSlow: o.m.Lock() (blocks while held), re-check done; run f if not
\* done, else unlock and return
OnceSlow(t) ==
    /\ proc = "running"
    /\ startPc[t] = "once_lock"
    /\ once.m = <<>>
    /\ IF OnceIsDone
       THEN /\ startPc' = [startPc EXCEPT ![t] = "idle"]
            /\ once' = once
       ELSE /\ startPc' = [startPc EXCEPT ![t] = "open1"]
            /\ once' = [once EXCEPT !.m = <<t>>]
    /\ UNCHANGED <<proc, errChan, warnChan, infoChan, startCalls, handles,
                   consumers, sinks, stdout, sendq, sent, recv>>

\* an OpenLogFile that returns without the file when the open fails
OpenLogFileNoFatal(t, i, ok) ==
    /\ proc = "running"
    /\ i \in 1..3
    /\ startPc[t] = <<"open1", "open2", "open3">>[i]
    /\ handles' = IF ok THEN [handles EXCEPT ![Kinds[i]] = @ + 1] ELSE handles
    /\ startPc' = [startPc EXCEPT ![t] = <<"open2", "open3", "spawn">>[i]]
    /\ UNCHANGED <<proc, errChan, warnChan, infoChan, once, startCalls, consumers,
                   sinks, stdout, sendq, sent, recv>>

\* l.OpenLogFile(name, O_APPEND|O_CREATE|O_WRONLY, 0644) for the i-th sink;
\* ok is the file system's answer; a failure is log.Fatal: the process exits
OpenLogFile(t, i, ok) ==
    /\ proc = "running"
    /\ i \in 1..3
    /\ startPc[t] = <<"open1", "open2", "open3">>[i]
    /\ IF ok
       THEN /\ handles' = [handles EXCEPT ![Kinds[i]] = @ + 1]
            /\ startPc' = [startPc EXCEPT ![t] = <<"open2", "open3", "spawn">>[i]]
            /\ proc' = proc
       ELSE /\ proc' = "exited"
            /\ UNCHANGED <<handles, startPc>>
    /\ UNCHANGED <<errChan, warnChan, infoChan, once, startCalls, consumers,
                   sinks, stdout, sendq, sent, recv>>

\* go func(el, wl, il) {...}(errLogger, warnLogger, infoLogger)
Spawn(t) ==
    /\ proc = "running"
    /\ startPc[t] = "spawn"
    /\ consumers' = Append(consumers, [cur |-> <<>>])
    /\ startPc' = [startPc EXCEPT ![t] = "once_done"]
    /\ UNCHANGED <<proc, errChan, warnChan, infoChan, once, startCalls, handles,
                   sinks, stdout, sendq, sent, recv>>

\* f returned: deferred o.done.Store(1), deferred o.m.Unlock(), return
OnceDone(t) ==
    /\ proc = "running"
    /\ startPc[t] = "once_done"
    /\ once' = [done |-> TRUE, m |-> <<>>]
    /\ startPc' = [startPc EXCEPT ![t] = "idle"]
    /\ UNCHANGED <<proc, errChan, warnChan, infoChan, startCalls, handles,
                   consumers, sinks, stdout, sendq, sent, recv>>

\* ------------------------------------------------------------- producers
\* the task starts executing  ch <- v  on the channel of kind k
BeginSend(t, k, v) ==
    /\ proc = "running"
    /\ Idle(t)
    /\ sendq' = [sendq EXCEPT ![t] = <<[kind |-> k, val |-> v]>>]
    /\ UNCHANGED <<proc, errChan, warnChan, infoChan, once, startPc, startCalls,
                   handles, consumers, sinks, stdout, sent, recv>>

Error(t, err) == BeginSend(t, "error", err)

ErrorF(t, format, args) == BeginSend(t, "error", Errorf(format, args))

ErrorStr(t, format, args) == BeginSend(t, "error", Errorf(format, args))

Warn(t, warning) == BeginSend(t, "warn", warning)

WarnF(t, format, args) == BeginSend(t, "warn", Sprintf(format, args))

Info(t, info) == BeginSend(t, "info", info)

InfoF(t, format, args) == BeginSend(t, "info", Sprintf(format, args))

\* a send that gives up on a full buffer
ChanSendDropping(t) ==
    /\ proc = "running"
    /\ sendq[t] # <<>>
    /\ LET k == sendq[t][1].kind
           v == sendq[t][1].val
       IN /\ SetChan(k, IF CanSend(k) THEN Append(Chan(k), v) ELSE Chan(k))
          /\ sent' = [sent EXCEPT ![k] = Append(@, v)]
    /\ sendq' = [sendq EXCEPT ![t] = <<>>]
    /\ UNCHANGED <<proc, once, startPc, startCalls, handles, consumers, sinks,
                   stdout, recv>>

\* the send completes: possible only while the buffer has room; until then
\* the task stays blocked inside the logger call
ChanSend(t) ==
    /\ proc = "running"
    /\ sendq[t] # <<>>
    /\ LET k == sendq[t][1].kind
           v == sendq[t][1].val
       IN /\ CanSend(k)
          /\ SetChan(k, Append(Chan(k), v))
          /\ sent' = [sent EXCEPT ![k] = Append(@, v)]
    /\ sendq' = [sendq EXCEPT ![t] = <<>>]
    /\ UNCHANGED <<proc, once, startPc, startCalls, handles, consumers, sinks,
                   stdout, recv>>

\* -------------------------------------------------------------- consumer
\* a consumer whose three arms all write to the error logger
SinkOfError(k) == "error"

\* the slog.Logger a value received from the channel of kind k is written to
SinkOf(k) == k

Level(k) == CASE k = "error" -> "ERROR"
              [] k = "warn" -> "WARN"
              [] k = "info" -> "INFO"

\* a select without the arm of infoChan
ConsumerRecvNoInfo(c, k) ==
    /\ proc = "running"
    /\ k # "info"
    /\ c \in 1..Len(consumers)
    /\ consumers[c].cur = <<>>
    /\ Chan(k) # <<>>
    /\ consumers' = [consumers EXCEPT ![c].cur = <<[kind |-> k, val |-> Head(Chan(k))]>>]
    /\ recv' = [recv EXCEPT ![k] = Append(@, Head(Chan(k)))]
    /\ SetChan(k, Tail(Chan(k)))
    /\ UNCHANGED <<proc, once, startPc, startCalls, handles, sinks, stdout,
                   sendq, sent>>

\* a receive that takes the newest value of the buffer instead of the oldest
ConsumerRecvNewest(c, k) ==
    /\ proc = "running"
    /\ c \in 1..Len(consumers)
    /\ consumers[c].cur = <<>>
    /\ Chan(k) # <<>>
    /\ consumers' = [consumers EXCEPT ![c].cur =
                        <<[kind |-> k, val |-> Chan(k)[Len(Chan(k))]]>>]
    /\ recv' = [recv EXCEPT ![k] = Append(@, Chan(k)[Len(Chan(k))])]
    /\ SetChan(k, SubSeq(Chan(k), 1, Len(Chan(k)) - 1))
    /\ UNCHANGED <<proc, once, startPc, startCalls, handles, sinks, stdout,
                   sendq, sent>>

\* one arm of the select fires: consumer c receives the head of channel k
ConsumerRecv(c, k) ==
    /\ proc = "running"
    /\ c \in 1..Len(consumers)
    /\ consumers[c].cur = <<>>
    /\ Chan(k) # <<>>
    /\ consumers' = [consumers EXCEPT ![c].cur = <<[kind |-> k, val |-> Head(Chan(k))]>>]
    /\ recv' = [recv EXCEPT ![k] = Append(@, Head(Chan(k)))]
    /\ SetChan(k, Tail(Chan(k)))
    /\ UNCHANGED <<proc, once, startPc, startCalls, handles, sinks, stdout,
                   sendq, sent>>

\* a consumer without the nil test of the error arm
LogTextNilLogged(k, v) == IF k = "error" THEN <<v.msg>> ELSE <<v>>

\* the text a received value is logged as, <<>> when nothing is logged
LogText(k, v) ==
    IF k = "error"
    THEN IF v.isNil THEN <<>> ELSE <<v.msg>>
    ELSE <<v>>

\* body of the arm: el.Error / wl.Warn / il.Info, then fmt.Println
ConsumerLog(c) ==
    /\ proc = "running"
    /\ c \in 1..Len(consumers)
    /\ consumers[c].cur # <<>>
    /\ LET k == consumers[c].cur[1].kind
           text == LogText(k, consumers[c].cur[1].val)
       IN IF text = <<>>
          THEN UNCHANGED <<sinks, stdout>>
          ELSE /\ sinks' = [sinks EXCEPT ![SinkOf(k)] =
                              Append(@, [level |-> Level(k), msg |-> text[1]])]
               /\ stdout' = Append(stdout, text[1])
    /\ consumers' = [consumers EXCEPT ![c].cur = <<>>]
    /\ UNCHANGED <<proc, errChan, warnChan, infoChan, once, startPc, startCalls,
                   handles, sendq, sent, recv>>

\* ============================================================== gateway
\* process-wide configuration read once by main from the environment
jwtSecret == "secret"
targetDomain == "http://ors:8080"

\* ------------------------------------------------------- inbound requests
\* A bearer token as the jwt library sees it: its header's alg, the key its
\* signature was made with, whether it has three decodable segments, whether
\* its exp lies in the past, and the role claim.
Tok(alg, key, wf, expired, role) ==
    [alg |-> alg, key |-> key, wellFormed |-> wf, expired |-> expired, role |-> role]

\* An Authorization value is a prefix followed by the token text (<<>>: none).
AuthValue(prefix, tok) == [prefix |-> prefix, tok |-> tok]
EmptyValue == AuthValue("", <<>>)

AllowedRoles == <<"ADMIN", "USER", "COURIER", "MANAGER", "CLIENT", "VENDOR">>
OtherRoles == {"", "admin"}

GoodTok(role) == Tok("HS256", jwtSecret, TRUE, FALSE, role)

BadToks ==
    { Tok("HS256", "other", TRUE, FALSE, "ADMIN"),
      Tok("HS256", "other", TRUE, FALSE, "GUEST"),
      Tok("RS256", jwtSecret, TRUE, FALSE, "ADMIN"),
      Tok("none", jwtSecret, TRUE, FALSE, "ADMIN"),
      Tok("HS256", jwtSecret, FALSE, FALSE, "ADMIN"),
      Tok("HS256", jwtSecret, TRUE, TRUE, "ADMIN") }

Bearer(tok) == <<AuthValue("Bearer ", <<tok>>)>>

\* r.URL.Path is a sequence of segments, as the server decoded it: the
\* request-target /%25zz arrives as the Path /%zz
Request(method, path, query, auth, body) ==
    [Method |-> method,
     URL |-> [Path |-> path, RawQuery |-> query],
     Header |-> [Authorization |-> auth, Accept |-> <<"a/b", "c/d">>],
     Body |-> body]

\* Authorization header lists the gate rejects, or accepts without "Bearer "
AuthSamples ==
    { <<>>, <<EmptyValue>>, <<AuthValue("Bearer ", <<>>)>>,
      <<AuthValue("", <<GoodTok("ADMIN")>>)>>,
      <<AuthValue("bearer ", <<GoodTok("ADMIN")>>)>> }
    \cup { Bearer(GoodTok(role)) : role \in OtherRoles }
    \cup { Bearer(t) : t \in BadToks }

\* the requests clients send
Inbound ==
    { Request("GET", <<"/orders", "/42">>, "x=1", a, "") : a \in AuthSamples }
    \cup { Request("GET", <<"/orders", "/42">>, "x=1", Bearer(GoodTok("ADMIN")), ""),
           Request("POST", <<"/orders", "/42">>, "", Bearer(GoodTok("USER")), "{}"),
           Request("PUT", <<"/orders">>, "x=1", Bearer(GoodTok("MANAGER")), "{}"),
           Request("GET", <<"/%zz">>, "", Bearer(GoodTok("COURIER")), ""),
           Request("GET", <<"/%zz">>, "x=1", Bearer(GoodTok("CLIENT")), ""),
           Request("POST", <<"/%zz">>, "", Bearer(GoodTok("VENDOR")), "{}") }

\* ------------------------------------------------------ ResponseWriter
RespKeys == {"Content-Type", "X-Content-Type-Options", "X-Up"}
NoHeader == [k \in RespKeys |-> <<>>]

NewResponseWriter ==
    [hdr |-> NoHeader, wrote |-> FALSE, status |-> 0, sentHdr |-> NoHeader,
     body |-> <<>>, whCalls |-> 0, connOk |-> TRUE]

\* the status line and the headers go out on the first call; later calls
\* are ignored ("superfluous response.WriteHeader call")
Commit(wr, code) ==
    IF wr.wrote THEN wr
    ELSE [wr EXCEPT !.wrote = TRUE, !.status = code, !.sentHdr = wr.hdr]

\* w.WriteHeader(code)
WriteHeader(wr, code) == [Commit(wr, code) EXCEPT !.whCalls = @ + 1]

\* w.Write(chunk): commits 200 if nothing was written yet; the bytes reach
\* the client only while the connection is usable
Write(wr, chunk) ==
    LET w1 == Commit(wr, 200)
    IN IF w1.connOk THEN [w1 EXCEPT !.body = Append(@, chunk)] ELSE w1

\* http.Error(w, msg, code)
HttpError(wr, msg, code) ==
    LET w1 == [wr EXCEPT !.hdr["Content-Type"] = <<"text/plain; charset=utf-8">>,
                         !.hdr["X-Content-Type-Options"] = <<"nosniff">>]
    IN Write(WriteHeader(w1, code), msg \o "\n")

\* ------------------------------------------------------------ middleware
InAlways(item, items) == TRUE

InSkipLast(item, items) == \E i \in 1..(Len(items) - 1) : items[i] = item

\* In(item, items...)
In(item, items) == \E i \in 1..Len(items) : items[i] = item

\* r.Header.Get("Authorization"): the first value, "" if there is none
HeaderGet(req) ==
    IF req.Header.Authorization = <<>> THEN EmptyValue
    ELSE req.Header.Authorization[1]

IsMissingNever(authHeader) == FALSE

\* authHeader == ""
IsMissing(authHeader) == authHeader = EmptyValue

\* strings.TrimPrefix(authHeader, "Bearer ")
TrimPrefix(authHeader) ==
    IF authHeader.prefix = "Bearer " THEN [authHeader EXCEPT !.prefix = ""]
    ELSE authHeader

KeyFuncAnyAlg(tok) == TRUE

\* the key function: only tokens of the HMAC family get the secret
KeyFunc(tok) == tok.alg \in {"HS256", "HS384", "HS512"}

\* jwt.ParseWithClaims(tokenString, &MyCustomClaims{}, keyFunc):
\* err == nil && token.Valid
ParseWithClaims(tokenString) ==
    /\ tokenString.prefix = ""
    /\ tokenString.tok # <<>>
    /\ LET tok == tokenString.tok[1]
       IN /\ tok.wellFormed
          /\ KeyFunc(tok)
          /\ tok.key = jwtSecret
          /\ ~tok.expired

\* what the middleware decides for a request
Verdict(req) ==
    LET authHeader == HeaderGet(req)
        tokenString == TrimPrefix(authHeader)
    IN IF IsMissing(authHeader) THEN "missing"
       ELSE IF ~ParseWithClaims(tokenString) THEN "invalid"
       ELSE IF ~In(tokenString.tok[1].role, AllowedRoles) THEN "forbidden"
       ELSE "accepted"

\* a gate that logs the tokens it finds invalid
ValidateJWTLogging(r, req) ==
    /\ proc = "running"
    /\ mainPc = "serving"
    /\ routes = {"/"}
    /\ rpc[r] = "idle"
    /\ rin' = [rin EXCEPT ![r] = <<req>>]
    /\ LET v == Verdict(req)
       IN /\ gate' = [gate EXCEPT ![r] = [parsed |-> v # "missing", verdict |-> v]]
          /\ rw' = [rw EXCEPT ![r] =
                CASE v = "missing" -> HttpError(@, "Missing token", 401)
                  [] v = "invalid" -> HttpError(@, "Invalid token", 401)
                  [] v = "forbidden" -> HttpError(@, "Forbidden", 403)
                  [] OTHER -> @]
          /\ rpc' = [rpc EXCEPT ![r] = IF v = "accepted" THEN "proxy" ELSE "done"]
          /\ IF v = "invalid"
             THEN ErrorF(r, <<"Invalid token: ", "%v">>, <<"signature is invalid">>)
             ELSE UNCHANGED <<proc, logVars>>
    /\ UNCHANGED <<mainPc, routes, out, up, diag>>

\* the closure returned by validateJWT(next), run for inbound request req
\* by the goroutine r the server started for it
ValidateJWT(r, req) ==
    /\ proc = "running"
    /\ mainPc = "serving"
    /\ routes = {"/"}
    /\ rpc[r] = "idle"
    /\ rin' = [rin EXCEPT ![r] = <<req>>]
    /\ LET v == Verdict(req)
       IN /\ gate' = [gate EXCEPT ![r] = [parsed |-> v # "missing", verdict |-> v]]
          /\ rw' = [rw EXCEPT ![r] =
                CASE v = "missing" -> HttpError(@, "Missing token", 401)
                  [] v = "invalid" -> HttpError(@, "Invalid token", 401)
                  [] v = "forbidden" -> HttpError(@, "Forbidden", 403)
                  [] OTHER -> @]
          /\ rpc' = [rpc EXCEPT ![r] = IF v = "accepted" THEN "proxy" ELSE "done"]
    /\ UNCHANGED <<proc, logVars, mainPc, routes, out, up, diag>>

\* --------------------------------------------------------------- handler
\* targetDomain + r.URL.Path
TargetURL(req) == <<targetDomain>> \o req.URL.Path

ValidURLAlways(url) == TRUE

\* url.Parse inside http.NewRequest rejects an invalid percent-escape
ValidURL(url) == \A i \in 1..Len(url) : url[i] # "/%zz"

\* a copy made with Header.Set: each value replaces the one before it
AddAllSet(dst, key, values) ==
    IF values = <<>> THEN dst
    ELSE [dst EXCEPT ![key] = <<values[Len(values)]>>]

\* the loops  for key, values := range h { for _, value := range values {
\* dst.Add(key, value) } }  over the keys of h
RECURSIVE AddAll(_, _, _)
AddAll(dst, key, values) ==
    IF values = <<>> THEN dst
    ELSE AddAll([dst EXCEPT ![key] = Append(@, Head(values))], key, Tail(values))

RECURSIVE CopyHeader(_, _, _)
CopyHeader(dst, src, keys) ==
    IF keys = {} THEN dst
    ELSE LET key == CHOOSE k \in keys : TRUE
         IN CopyHeader(AddAll(dst, key, src[key]), src, keys \ {key})

\* http.NewRequest(r.Method, targetURL, r.Body), then the header copy
NewRequest(req) ==
    [Method |-> req.Method, URL |-> TargetURL(req),
     Header |-> CopyHeader([k \in DOMAIN req.Header |-> <<>>], req.Header,
                           DOMAIN req.Header),
     Body |-> req.Body]

\* proxyHandler up to the dispatch: build the outbound request
ProxyConstruct(r) ==
    /\ proc = "running"
    /\ rpc[r] = "proxy"
    /\ IF ValidURL(TargetURL(rin[r][1]))
       THEN /\ out' = [out EXCEPT ![r] = <<NewRequest(rin[r][1])>>]
            /\ rpc' = [rpc EXCEPT ![r] = "dispatch"]
            /\ UNCHANGED <<rw, diag, proc, logVars>>
       ELSE /\ rw' = [rw EXCEPT ![r] = HttpError(@, "Error creating request", 500)]
            /\ ErrorF(r, <<"Error creating request: ", "%v">>, <<"invalid URL escape">>)
            /\ diag' = [diag EXCEPT ![r] = @ + 1]
            /\ rpc' = [rpc EXCEPT ![r] = "return"]
            /\ out' = out
    /\ UNCHANGED <<mainPc, routes, rin, gate, up>>

\* what the upstream may answer: a status other than the 200 a first Write
\* implies, with a body, and an error status without one
UpstreamResponses ==
    { [StatusCode |-> 201,
       Header |-> [k \in RespKeys |->
                     CASE k = "Content-Type" -> <<"application/json">>
                       [] k = "X-Up" -> <<"1", "2">>
                       [] OTHER -> <<>>],
       Body |-> <<"{\"id\":42}">>],
      [StatusCode |-> 404,
       Header |-> [k \in RespKeys |->
                     IF k = "Content-Type" THEN <<"text/plain">> ELSE <<>>],
       Body |-> <<>>] }

\* client.Do failures: the client's Timeout of 10 s turns an upstream that
\* never answers into one, like a refused connection
DispatchErrors == {"timeout"}

\* a client without Timeout: client.Do returns only when the upstream answers
DispatchNoTimeout(r, ok, res) ==
    /\ proc = "running"
    /\ rpc[r] = "dispatch"
    /\ ok
    /\ res \in UpstreamResponses
    /\ up' = [up EXCEPT ![r] = [@ EXCEPT !.dispatched = @ + 1,
                                        !.seen = out[r],
                                        !.resp = <<res>>]]
    /\ rpc' = [rpc EXCEPT ![r] = "relay"]
    /\ UNCHANGED <<rw, diag, proc, logVars>>
    /\ UNCHANGED <<mainPc, routes, rin, gate, out>>

\* client.Do(req): the request reaches the network; res is the response or
\* the error
Dispatch(r, ok, res) ==
    /\ proc = "running"
    /\ rpc[r] = "dispatch"
    /\ IF ok
       THEN /\ res \in UpstreamResponses
            /\ up' = [up EXCEPT ![r] = [@ EXCEPT !.dispatched = @ + 1,
                                               !.seen = out[r],
                                               !.resp = <<res>>]]
            /\ rpc' = [rpc EXCEPT ![r] = "relay"]
            /\ UNCHANGED <<rw, diag, proc, logVars>>
       ELSE /\ res \in DispatchErrors
            /\ up' = [up EXCEPT ![r] = [@ EXCEPT !.dispatched = @ + 1,
                                               !.seen = out[r]]]
            /\ rw' = [rw EXCEPT ![r] = HttpError(@, "Error forwarding request", 502)]
            /\ ErrorF(r, <<"Error forwarding request: ", "%v">>, <<res>>)
            /\ diag' = [diag EXCEPT ![r] = @ + 1]
            /\ rpc' = [rpc EXCEPT ![r] = "return"]
    /\ UNCHANGED <<mainPc, routes, rin, gate, out>>

\* io.Copy(w, resp.Body): n chunks are written; then the copy ends, with
\* end = "eof" (n is the whole body), "read" (reading the upstream body
\* failed) or "write" (writing to the client failed)
RECURSIVE WriteAll(_, _)
WriteAll(wr, chunks) ==
    IF chunks = <<>> THEN wr
    ELSE WriteAll(Write(wr, Head(chunks)), Tail(chunks))

Copy(wr, body, n, end) ==
    LET w1 == WriteAll(wr, SubSeq(body, 1, n))
    IN IF end = "write" THEN [Commit(w1, 200) EXCEPT !.connOk = FALSE] ELSE w1

CopyEnds(body) ==
    {[n |-> Len(body), end |-> "eof"]}
    \cup {[n |-> n, end |-> e] : n \in 0..(Len(body) - 1), e \in {"read", "write"}}

AllCopyEnds == UNION {CopyEnds(u.Body) : u \in UpstreamResponses}

\* what the handler does when io.Copy returns an error
OnCopyError(wr) == HttpError(wr, "Error proxying response", 500)

\* a handler that never closes the response body
DeferredMissing(u) == u

\* defer resp.Body.Close(), registered once a response was received
Deferred(u) == IF u.resp # <<>> THEN [u EXCEPT !.closed = @ + 1] ELSE u

\* a handler that streams the body before it writes the status code
RelayStatusLast(r, c) ==
    /\ proc = "running"
    /\ rpc[r] = "relay"
    /\ LET resp == up[r].resp[1]
           w1 == [rw[r] EXCEPT !.hdr = CopyHeader(@, resp.Header, RespKeys)]
           w2 == Copy(w1, resp.Body, c.n, c.end)
           w3 == WriteHeader(w2, resp.StatusCode)
       IN /\ c \in CopyEnds(resp.Body)
          /\ IF c.end = "eof"
             THEN /\ rw' = [rw EXCEPT ![r] = w3]
                  /\ up' = [up EXCEPT ![r] = Deferred(@)]
                  /\ rpc' = [rpc EXCEPT ![r] = "done"]
                  /\ UNCHANGED <<diag, proc, logVars>>
             ELSE /\ rw' = [rw EXCEPT ![r] = OnCopyError(w3)]
                  /\ ErrorF(r, <<"Error proxying response: ", "%v">>, <<c.end>>)
                  /\ diag' = [diag EXCEPT ![r] = @ + 1]
                  /\ rpc' = [rpc EXCEPT ![r] = "return"]
                  /\ up' = up
    /\ UNCHANGED <<mainPc, routes, rin, gate, out>>

\* proxyHandler after a response arrived: copy the response headers, write
\* the status code, stream the body
Relay(r, c) ==
    /\ proc = "running"
    /\ rpc[r] = "relay"
    /\ LET resp == up[r].resp[1]
           w1 == [rw[r] EXCEPT !.hdr = CopyHeader(@, resp.Header, RespKeys)]
           w2 == WriteHeader(w1, resp.StatusCode)
           w3 == Copy(w2, resp.Body, c.n, c.end)
       IN /\ c \in CopyEnds(resp.Body)
          /\ IF c.end = "eof"
             THEN /\ rw' = [rw EXCEPT ![r] = w3]
                  /\ up' = [up EXCEPT ![r] = Deferred(@)]
                  /\ rpc' = [rpc EXCEPT ![r] = "done"]
                  /\ UNCHANGED <<diag, proc, logVars>>
             ELSE /\ rw' = [rw EXCEPT ![r] = OnCopyError(w3)]
                  /\ ErrorF(r, <<"Error proxying response: ", "%v">>, <<c.end>>)
                  /\ diag' = [diag EXCEPT ![r] = @ + 1]
                  /\ rpc' = [rpc EXCEPT ![r] = "return"]
                  /\ up' = up
    /\ UNCHANGED <<mainPc, routes, rin, gate, out>>

\* the handler's call of logs.ErrorF returns once its send completed, and
\* proxyHandler returns, running its deferred call
Return(r) ==
    /\ rpc[r] = "return"
    /\ ChanSend(r)
    /\ up' = [up EXCEPT ![r] = Deferred(@)]
    /\ rpc' = [rpc EXCEPT ![r] = "done"]
    /\ UNCHANGED <<mainPc, routes, rin, gate, rw, out, diag>>

\* ------------------------------------------------------------------ main
\* logs.StartListener()
MainStartListener ==
    /\ mainPc = "start"
    /\ StartListener(MainTask)
    /\ mainPc' = "starting"
    /\ UNCHANGED <<routes, rpc, rin, gate, rw, out, up, diag>>

\* http.Handle("/", validateJWT(http.HandlerFunc(proxyHandler)))
MainHandle ==
    /\ proc = "running"
    /\ mainPc = "starting"
    /\ startPc[MainTask] = "idle"
    /\ routes' = routes \cup {"/"}
    /\ mainPc' = "listen"
    /\ UNCHANGED <<proc, logVars, rpc, rin, gate, rw, out, up, diag>>

\* http.ListenAndServe / ListenAndServeTLS: serve, or log.Fatal(err)
MainListen(ok) ==
    /\ proc = "running"
    /\ mainPc = "listen"
    /\ IF ok THEN mainPc' = "serving" /\ proc' = proc
       ELSE mainPc' = mainPc /\ proc' = "exited"
    /\ UNCHANGED <<logVars, routes, rpc, rin, gate, rw, out, up, diag>>

\* ------------------------------------------------------------------ init
\* func main has read the environment and run logs = logger.NewLogger()
Init ==
    /\ proc = "running"
    /\ mainPc = "start"
    /\ routes = {}
    /\ rpc = [r \in Reqs |-> "idle"]
    /\ rin = [r \in Reqs |-> <<>>]
    /\ gate = [r \in Reqs |-> [parsed |-> FALSE, verdict |-> "none"]]
    /\ rw = [r \in Reqs |-> NewResponseWriter]
    /\ out = [r \in Reqs |-> <<>>]
    /\ up = [r \in Reqs |-> [dispatched |-> 0, seen |-> <<>>, resp |-> <<>>, closed |-> 0]]
    /\ diag = [r \in Reqs |-> 0]
    /\ NewLogger
    /\ startPc = [t \in Tasks |-> "idle"]
    /\ startCalls = 0
    /\ handles = [k \in KindSet |-> 0]
    /\ consumers = <<>>
    /\ sinks = [k \in KindSet |-> <<>>]
    /\ stdout = <<>>
    /\ sendq = [t \in Tasks |-> <<>>]
    /\ sent = [k \in KindSet |-> <<>>]
    /\ recv = [k \in KindSet |-> <<>>]

\* producer calls made so far (completed or in progress)
Submitted ==
    Len(sent["error"]) + Len(sent["warn"]) + Len(sent["info"])
      + Cardinality({t \in Tasks : sendq[t] # <<>>})

ErrValues == {NilErr, Err("e1")}
Formats == {<<"failed: ", "%v">>}
Messages == {"m1"}

\* ------------------------------------------------------- the gateway
\* the steps of a StartListener call and of a send, by task t
LoggerStep(t) ==
    \/ OnceFast(t)
    \/ OnceSlow(t)
    \/ \E i \in 1..3, ok \in BOOLEAN : OpenLogFile(t, i, ok)
    \/ Spawn(t)
    \/ OnceDone(t)
    \/ ChanSend(t)

ConsumerStep ==
    \E c \in 1..Len(consumers) :
        \/ \E k \in KindSet : ConsumerRecv(c, k)
        \/ ConsumerLog(c)

MainStep ==
    \/ MainStartListener
    \/ MainHandle
    \/ \E ok \in BOOLEAN : MainListen(ok)

\* requests arrive in the order of their numbers
Arrive(r) ==
    /\ \A q \in Reqs : q < r => rpc[q] # "idle"
    /\ \E req \in Inbound : ValidateJWT(r, req)

RequestStep ==
    \E r \in Reqs :
        \/ Arrive(r)
        \/ ProxyConstruct(r)
        \/ \E res \in UpstreamResponses : Dispatch(r, TRUE, res)
        \/ \E e \in DispatchErrors : Dispatch(r, FALSE, e)
        \/ \E c \in AllCopyEnds : Relay(r, c)
        \/ Return(r)

Next ==
    \/ MainStep
    \/ RequestStep
    \/ LoggerStep(MainTask) /\ UNCHANGED gwVars
    \/ ConsumerStep /\ UNCHANGED gwVars

Spec == Init /\ [][Next]_vars

\* ------------------------------------------------- logger used as a library
ClientStart ==
    \E t \in Clients :
        startCalls < MaxStartCalls /\ StartListener(t) /\ UNCHANGED gwVars

ClientSubmit ==
    \E t \in Clients :
        /\ Submitted < MaxSubmit
        /\ \/ \E e \in ErrValues : Error(t, e)
           \/ \E f \in Formats, m \in Messages : ErrorF(t, f, <<m>>)
           \/ \E f \in Formats : ErrorStr(t, f, <<>>)
           \/ \E m \in Messages : Warn(t, m)
           \/ \E f \in Formats : WarnF(t, f, <<"w">>)
           \/ \E m \in Messages : Info(t, m)
           \/ \E f \in Formats : InfoF(t, f, <<"i">>)
        /\ UNCHANGED gwVars

LoggerNext ==
    \/ ClientStart
    \/ ClientSubmit
    \/ (\E t \in Clients : LoggerStep(t)) /\ UNCHANGED gwVars
    \/ ConsumerStep /\ UNCHANGED gwVars

LoggerSpec == Init /\ [][LoggerNext]_vars

\* ----------------------------------------------- a burst of one kind
\* no value of another kind than k was or is being submitted
OnlyKind(k) ==
    /\ \A k2 \in KindSet \ {k} : sent[k2] = <<>>
    /\ \A t \in Tasks : sendq[t] # <<>> => sendq[t][1].kind = k

BurstStart ==
    \E t \in Clients : startCalls = 0 /\ StartListener(t) /\ UNCHANGED gwVars

BurstSubmit ==
    \E t \in Clients, k \in KindSet :
        /\ Submitted < MaxBurst
        /\ OnlyKind(k)
        /\ \/ k = "error" /\ ErrorF(t, <<"burst">>, <<>>)
           \/ k = "warn" /\ Warn(t, "burst")
           \/ k = "info" /\ Info(t, "burst")
        /\ UNCHANGED gwVars

BurstNext ==
    \/ BurstStart
    \/ BurstSubmit
    \/ (\E t \in Clients : LoggerStep(t)) /\ UNCHANGED gwVars
    \/ ConsumerStep /\ UNCHANGED gwVars

BurstSpec == Init /\ [][BurstNext]_vars

\* ------------------------------------- draining a full error channel
\* The logger after QueueCap calls of ErrorF were made and StartListener
\* has returned, before the consumer goroutine was first scheduled: the
\* error channel is full, the consumer is in its select.
Backlog(n, v) == [i \in 1..n |-> v]

DrainInit ==
    /\ proc = "running"
    /\ mainPc = "start"
    /\ routes = {}
    /\ rpc = [r \in Reqs |-> "idle"]
    /\ rin = [r \in Reqs |-> <<>>]
    /\ gate = [r \in Reqs |-> [parsed |-> FALSE, verdict |-> "none"]]
    /\ rw = [r \in Reqs |-> NewResponseWriter]
    /\ out = [r \in Reqs |-> <<>>]
    /\ up = [r \in Reqs |-> [dispatched |-> 0, seen |-> <<>>, resp |-> <<>>, closed |-> 0]]
    /\ diag = [r \in Reqs |-> 0]
    /\ errChan = Backlog(QueueCap, Errorf(<<"burst">>, <<>>))
    /\ warnChan = <<>>
    /\ infoChan = <<>>
    /\ once = [done |-> TRUE, m |-> <<>>]
    /\ startPc = [t \in Tasks |-> "idle"]
    /\ startCalls = 1
    /\ handles = [k \in KindSet |-> 1]
    /\ consumers = <<[cur |-> <<>>]>>
    /\ sinks = [k \in KindSet |-> <<>>]
    /\ stdout = <<>>
    /\ sendq = [t \in Tasks |-> <<>>]
    /\ sent = [k \in KindSet |-> IF k = "error" THEN errChan ELSE <<>>]
    /\ recv = [k \in KindSet |-> <<>>]

\* up to MaxSubmit further calls, of any kind
DrainSubmit ==
    \E t \in Clients :
        /\ Submitted < QueueCap + MaxSubmit
        /\ \/ ErrorF(t, <<"burst">>, <<>>)
           \/ Warn(t, "burst")
           \/ Info(t, "burst")
        /\ UNCHANGED gwVars

DrainNext ==
    \/ DrainSubmit
    \/ (\E t \in Clients : ChanSend(t)) /\ UNCHANGED gwVars
    \/ ConsumerStep /\ UNCHANGED gwVars

\* The consumer goroutine is scheduled whenever it can run; its select
\* takes a pseudo-random ready case, so no arm that is ready again and again
\* is passed over forever; a sender whose channel has room completes.
FairLogger ==
    /\ \A k \in KindSet : SF_vars(ConsumerRecv(1, k) /\ UNCHANGED gwVars)
    /\ WF_vars(ConsumerLog(1) /\ UNCHANGED gwVars)
    /\ \A t \in Clients : WF_vars(ChanSend(t) /\ UNCHANGED gwVars)

DrainSpec == DrainInit /\ [][DrainNext]_vars /\ FairLogger

\* --------------------------- a hung upstream and a full error channel
\* The gateway while it serves, after QueueCap earlier requests each ended
\* in a dispatch timeout and returned, before the consumer goroutine took
\* the first of their diagnostics: the error channel is full.
HungInit ==
    /\ proc = "running"
    /\ mainPc = "serving"
    /\ routes = {"/"}
    /\ rpc = [r \in Reqs |-> "idle"]
    /\ rin = [r \in Reqs |-> <<>>]
    /\ gate = [r \in Reqs |-> [parsed |-> FALSE, verdict |-> "none"]]
    /\ rw = [r \in Reqs |-> NewResponseWriter]
    /\ out = [r \in Reqs |-> <<>>]
    /\ up = [r \in Reqs |-> [dispatched |-> 0, seen |-> <<>>, resp |-> <<>>, closed |-> 0]]
    /\ diag = [r \in Reqs |-> 0]
    /\ errChan = Backlog(QueueCap,
                         Errorf(<<"Error forwarding request: ", "%v">>, <<"timeout">>))
    /\ warnChan = <<>>
    /\ infoChan = <<>>
    /\ once = [done |-> TRUE, m |-> <<>>]
    /\ startPc = [t \in Tasks |-> "idle"]
    /\ startCalls = 1
    /\ handles = [k \in KindSet |-> 1]
    /\ consumers = <<[cur |-> <<>>]>>
    /\ sinks = [k \in KindSet |-> <<>>]
    /\ stdout = <<>>
    /\ sendq = [t \in Tasks |-> <<>>]
    /\ sent = [k \in KindSet |-> IF k = "error" THEN errChan ELSE <<>>]
    /\ recv = [k \in KindSet |-> <<>>]

\* the requests that arrive meanwhile: one that is dispatched, one whose
\* outbound request cannot be built
HungInbound ==
    { Request("GET", <<"/orders", "/42">>, "x=1", Bearer(GoodTok("ADMIN")), ""),
      Request("GET", <<"/%zz">>, "", Bearer(GoodTok("COURIER")), "") }

HungArrive(r) ==
    /\ \A q \in Reqs : q < r => rpc[q] # "idle"
    /\ \E req \in HungInbound : ValidateJWT(r, req)

\* the steps of the handler goroutine of request r when the upstream never
\* answers: every client.Do ends in its timeout
HandlerStep(r) ==
    \/ ProxyConstruct(r)
    \/ \E e \in DispatchErrors : Dispatch(r, FALSE, e)
    \/ Return(r)

HungNext ==
    \/ \E r \in Reqs : HungArrive(r) \/ HandlerStep(r)
    \/ ConsumerStep /\ UNCHANGED gwVars

\* A goroutine that can run does: client.Do returns within the client's
\* Timeout, a sender whose channel has room completes, and the consumer is
\* scheduled whenever a channel holds a record.
FairHandlers ==
    /\ \A r \in Reqs : WF_vars(HandlerStep(r))
    /\ WF_vars(ConsumerStep /\ UNCHANGED gwVars)

HungSpec == HungInit /\ [][HungNext]_vars /\ FairHandlers

\* =============================================================== claims
\* What the claims say about a request, stated on the request itself.
HmacAlgs == {"HS256", "HS384", "HS512"}
SixRoles == {"ADMIN", "USER", "COURIER", "MANAGER", "CLIENT", "VENDOR"}

Arrived(r) == rin[r] # <<>>

\* the Authorization header is absent or empty
NoAuth(r) ==
    \/ rin[r][1].Header.Authorization = <<>>
    \/ /\ rin[r][1].Header.Authorization[1].prefix = ""
       /\ rin[r][1].Header.Authorization[1].tok = <<>>

\* the header carries, bare or after "Bearer ", a well-formed unexpired token
\* of the HMAC family signed with the configured secret
TokenGood(r) ==
    LET a == rin[r][1].Header.Authorization[1]
    IN /\ a.prefix \in {"", "Bearer "}
       /\ a.tok # <<>>
       /\ a.tok[1].wellFormed
       /\ a.tok[1].alg \in HmacAlgs
       /\ a.tok[1].key = "secret"
       /\ ~a.tok[1].expired

RoleOf(r) == rin[r][1].Header.Authorization[1].tok[1].role

Acceptable(r) == Arrived(r) /\ ~NoAuth(r) /\ TokenGood(r) /\ RoleOf(r) \in SixRoles

Forwarded(r) == up[r].dispatched > 0

\* the handler was entered for r
InHandler(r) ==
    \/ rpc[r] \in {"proxy", "dispatch", "relay", "return"}
    \/ rpc[r] = "done" /\ (out[r] # <<>> \/ diag[r] > 0)

\* the gate answered r itself, with this status and message
Rejected(r, code, msg) ==
    /\ rpc[r] = "done"
    /\ rw[r].wrote
    /\ rw[r].status = code
    /\ rw[r].body = <<msg \o "\n">>
    /\ ~Forwarded(r)
    /\ out[r] = <<>>
    /\ ~InHandler(r)

\* C1: a request is dispatched to the upstream only if the gate accepted
\* that same request (non-empty Authorization header, token validated, role
\* in the allow-set); no rejected request is ever forwarded or has an
\* outbound request built for it.
C1_ForwardOnlyIfAccepted ==
    \A r \in Reqs :
        /\ (Forwarded(r) \/ out[r] # <<>> \/ InHandler(r)) =>
               Acceptable(r) /\ gate[r].verdict = "accepted"
        /\ (Arrived(r) /\ ~Acceptable(r)) =>
               ~Forwarded(r) /\ rw[r].status \in {401, 403}

C1_Witness ==
    \E r, q \in Reqs :
        /\ Forwarded(r) /\ rpc[r] = "relay"
        /\ Arrived(q) /\ ~Acceptable(q) /\ rpc[q] = "done"

\* C2: every dispatched request targets the configured origin followed by
\* the full inbound path including the query component.
C2_TargetKeepsQuery ==
    \A r \in Reqs :
        Forwarded(r) =>
            up[r].seen[1].URL =
                <<"http://ors:8080">> \o rin[r][1].URL.Path
                    \o (IF rin[r][1].URL.RawQuery = "" THEN <<>>
                        ELSE <<"?", rin[r][1].URL.RawQuery>>)

\* C5: a request whose Authorization header is absent or empty is answered
\* 401 "Missing token"; the token validator is not consulted and the
\* upstream is never contacted for it.
C5_MissingToken ==
    \A r \in Reqs :
        (Arrived(r) /\ NoAuth(r)) =>
            Rejected(r, 401, "Missing token") /\ ~gate[r].parsed

C5_Witness ==
    \E r, q \in Reqs :
        /\ Arrived(r) /\ rin[r][1].Header.Authorization = <<>>
        /\ Arrived(q) /\ rin[q][1].Header.Authorization # <<>> /\ NoAuth(q)

\* C6: a request with a non-empty Authorization header whose token fails
\* validation (wrong key, non-HMAC algorithm, malformed, expired) is answered
\* 401 "Invalid token" whatever role the token claims, and is not forwarded.
C6_InvalidToken ==
    \A r \in Reqs :
        (Arrived(r) /\ ~NoAuth(r) /\ ~TokenGood(r)) =>
            Rejected(r, 401, "Invalid token") /\ gate[r].parsed

C6_Witness ==
    \E r, q \in Reqs :
        /\ Arrived(r) /\ ~NoAuth(r) /\ rin[r][1].Header.Authorization[1].tok # <<>>
        /\ RoleOf(r) = "ADMIN"
        /\ rin[r][1].Header.Authorization[1].tok[1].key # "secret"
        /\ Arrived(q) /\ ~NoAuth(q) /\ rin[q][1].Header.Authorization[1].tok # <<>>
        /\ rin[q][1].Header.Authorization[1].tok[1].alg \notin HmacAlgs

\* C7: for a request with a valid token the gate answers 403 and does not
\* forward exactly when the role is none of the six allowed roles (the empty
\* role included); with one of the six the request enters the handler.
C7_RoleGate ==
    \A r \in Reqs :
        (Arrived(r) /\ ~NoAuth(r) /\ TokenGood(r)) =>
            /\ Rejected(r, 403, "Forbidden") <=> RoleOf(r) \notin SixRoles
            /\ RoleOf(r) \in SixRoles => InHandler(r)
            /\ RoleOf(r) \in SixRoles => gate[r].verdict = "accepted"

C7_Witness ==
    \E r, q \in Reqs :
        /\ Arrived(r) /\ ~NoAuth(r) /\ TokenGood(r) /\ RoleOf(r) = ""
        /\ Arrived(q) /\ ~NoAuth(q) /\ TokenGood(q) /\ RoleOf(q) = "VENDOR"

\* StartListener calls that have returned
Returned == startCalls - Cardinality({t \in Tasks : startPc[t] # "idle"})

\* C3: however many times and from however many tasks StartListener is
\* invoked, there is at most one consumer and one handle per sink, and
\* exactly one of each once a call has returned; the consumer, once running,
\* stays, and no step after the first start completed changes the Once, the
\* handles or the consumers.
C3_StartOnce ==
    /\ [](/\ Len(consumers) <= 1
          /\ \A k \in KindSet : handles[k] <= 1
          /\ Returned > 0 =>
                /\ once.done
                /\ Len(consumers) = 1
                /\ \A k \in KindSet : handles[k] = 1)
    /\ [][/\ Len(consumers) = 1 => Len(consumers') = 1
          /\ once.done => /\ once' = once
                          /\ handles' = handles
                          /\ Len(consumers') = Len(consumers)]_vars

C3_Witness ==
    /\ startCalls >= 2
    /\ Returned = startCalls
    /\ Len(consumers) = 1
    /\ \A k \in KindSet : handles[k] = 1

RECURSIVE IsPrefix(_, _)
IsPrefix(a, b) ==
    \/ a = <<>>
    \/ /\ b # <<>>
       /\ Head(a) = Head(b)
       /\ IsPrefix(Tail(a), Tail(b))

\* C8: when streaming the body fails after the upstream status was written,
\* the handler only emits one Error diagnostic: no second attempt to write a
\* status code, no byte added to the response besides the upstream's.
C8_CopyFailureOnlyLogs ==
    \A r \in Reqs :
        (up[r].resp # <<>> /\ diag[r] > 0) =>
            /\ diag[r] = 1
            /\ rw[r].status = up[r].resp[1].StatusCode
            /\ rw[r].whCalls = 1
            /\ IsPrefix(rw[r].body, up[r].resp[1].Body)

\* C9: a rejection by the gate submits no diagnostic: the rejected request
\* has no logger call made or pending, and the step that rejects it leaves
\* the three queues and the three sinks as they are.
C9_RejectionSilent ==
    /\ [](\A r \in Reqs :
            gate[r].verdict \in {"missing", "invalid", "forbidden"} =>
                diag[r] = 0 /\ sendq[r] = <<>>)
    /\ [][\A r \in Reqs :
            (rpc[r] = "idle" /\ rpc'[r] = "done") =>
                UNCHANGED <<errChan, warnChan, infoChan, sinks, stdout, sendq,
                            sent, recv, handles>>]_vars

C9_Witness ==
    \E r, q \in Reqs :
        /\ gate[r].verdict = "forbidden"
        /\ gate[q].verdict = "invalid"
        /\ rpc[r] = "done" /\ rpc[q] = "done"

RECURSIVE SumDiag(_)
SumDiag(rs) ==
    IF rs = {} THEN 0
    ELSE LET r == CHOOSE x \in rs : TRUE IN diag[r] + SumDiag(rs \ {r})

BadPath(r) == \E i \in 1..Len(rin[r][1].URL.Path) : rin[r][1].URL.Path[i] = "/%zz"

\* the client got this status and message and nothing of an upstream response
FailedWith(r, code, msg) ==
    /\ rpc[r] \in {"return", "done"}
    /\ rw[r].status = code
    /\ rw[r].whCalls = 1
    /\ rw[r].body = <<msg \o "\n">>
    /\ rw[r].sentHdr["X-Up"] = <<>>
    /\ rw[r].sentHdr["Content-Type"] = <<"text/plain; charset=utf-8">>
    /\ diag[r] = 1
    /\ up[r].resp = <<>>

\* C10: for an accepted request, a failure to build the outbound request
\* gives 500, one Error diagnostic and no dispatch; a failed dispatch gives
\* 502 and one Error diagnostic; nothing of an upstream response is relayed;
\* the diagnostics submitted are exactly those the handlers emitted.
C10_FailureStatus ==
    /\ \A r \in Reqs :
          /\ (Acceptable(r) /\ BadPath(r)) =>
                /\ ~Forwarded(r) /\ out[r] = <<>>
                /\ rpc[r] # "proxy" => FailedWith(r, 500, "Error creating request")
          /\ (Forwarded(r) /\ up[r].resp = <<>>) =>
                FailedWith(r, 502, "Error forwarding request")
          /\ (rpc[r] = "return") <=> (sendq[r] # <<>>)
    /\ Len(sent["error"]) + Cardinality({r \in Reqs : sendq[r] # <<>>}) = SumDiag(Reqs)
    /\ sent["warn"] = <<>> /\ sent["info"] = <<>>

C10_Witness ==
    \E r, q \in Reqs :
        /\ rpc[r] = "done" /\ Acceptable(r) /\ BadPath(r)
        /\ rpc[q] = "done" /\ Forwarded(q) /\ up[q].resp = <<>>

\* C11: within each queue the records are consumed in the order in which
\* their submissions completed, whatever the producers and the interleaving:
\* the completed submissions of a kind are, in order, those consumed followed
\* by those still queued, and a receive takes the oldest queued record.
C11_QueueFifo ==
    /\ [](\A k \in KindSet : sent[k] = recv[k] \o Chan(k))
    /\ [][\A k \in KindSet :
            recv'[k] # recv[k] =>
                /\ Chan(k) # <<>>
                /\ recv'[k] = Append(recv[k], Head(Chan(k)))
                /\ sent'[k] = sent[k]]_vars

\* two different records of one queue, from two producers, both consumed,
\* while a record of another queue submitted meanwhile is not involved
C11_Witness ==
    /\ Len(recv["error"]) = 2
    /\ recv["error"][1] # recv["error"][2]
    /\ sent["error"] = recv["error"]

\* the consumer holds a received nil error it has not yet dealt with
HoldsNil(c) ==
    /\ consumers[c].cur # <<>>
    /\ consumers[c].cur[1].kind = "error"
    /\ consumers[c].cur[1].val.isNil

\* C12: a nil error submitted through Error takes a slot of the error queue
\* like any record and is removed by the consumer; dealing with it writes no
\* line to any sink nor to the mirrored stream, and leaves the consumer
\* running and ready for the next record; the error sink never holds more
\* lines than non-nil errors were received.
C12_NilErrorSkipped ==
    /\ [][\A t \in Tasks :
            (/\ sendq[t] # <<>> /\ sendq'[t] = <<>>
             /\ sendq[t][1].kind = "error" /\ sendq[t][1].val.isNil) =>
                errChan' = Append(errChan, NilErr)]_vars
    /\ [][\A c \in 1..Len(consumers) :
            (HoldsNil(c) /\ consumers'[c] # consumers[c]) =>
                /\ sinks' = sinks
                /\ stdout' = stdout
                /\ proc' = "running"
                /\ Len(consumers') = Len(consumers)
                /\ consumers'[c].cur = <<>>]_vars
    /\ [](Len(sinks["error"]) <=
            Cardinality({i \in 1..Len(recv["error"]) : ~recv["error"][i].isNil}))

\* a nil error was consumed, then the error submitted after it was logged
C12_Witness ==
    /\ recv["error"] = <<NilErr, Err("e1")>>
    /\ sinks["error"] = <<[level |-> "ERROR", msg |-> "e1"]>>
    /\ stdout = <<"e1">>
    /\ sinks["warn"] = <<>> /\ sinks["info"] = <<>>
    /\ \A c \in 1..Len(consumers) : consumers[c].cur = <<>>

\* the lines the records of seq make in the sink of their kind
RECURSIVE LinesOf(_, _)
LinesOf(k, seq) ==
    IF seq = <<>> THEN <<>>
    ELSE LET v == Head(seq)
             lvl == IF k = "error" THEN "ERROR" ELSE IF k = "warn" THEN "WARN" ELSE "INFO"
         IN IF k = "error"
            THEN IF v.isNil THEN LinesOf(k, Tail(seq))
                 ELSE <<[level |-> lvl, msg |-> v.msg]>> \o LinesOf(k, Tail(seq))
            ELSE <<[level |-> lvl, msg |-> v]>> \o LinesOf(k, Tail(seq))

\* the records of kind k received and dealt with: all received but the one
\* a consumer still holds
Handled(k) ==
    IF \E c \in 1..Len(consumers) :
          consumers[c].cur # <<>> /\ consumers[c].cur[1].kind = k
    THEN SubSeq(recv[k], 1, Len(recv[k]) - 1)
    ELSE recv[k]

\* C13: records are received by one consumer task at most, each once; the
\* sink of a kind holds exactly one line per non-nil record of that kind
\* dealt with, in order, and nothing else; the mirrored stream holds as many
\* lines as the three sinks together; only the consumer's logging step
\* changes a sink, and it adds one line to one sink.
C13_OneWriterOneSink ==
    /\ [](/\ Len(consumers) <= 1
          /\ \A k \in KindSet :
                /\ Len(recv[k]) <= Len(sent[k])
                /\ sinks[k] = LinesOf(k, Handled(k))
          /\ Len(stdout) =
                Len(sinks["error"]) + Len(sinks["warn"]) + Len(sinks["info"]))
    /\ [][sinks' # sinks =>
            \E c \in 1..Len(consumers) :
                /\ consumers[c].cur # <<>>
                /\ consumers'[c].cur = <<>>
                /\ \E k \in KindSet :
                      /\ k = consumers[c].cur[1].kind
                      /\ Len(sinks'[k]) = Len(sinks[k]) + 1
                      /\ \A k2 \in KindSet \ {k} : sinks'[k2] = sinks[k2]]_vars

\* a warning and an information were each written to their own sink
C13_Witness ==
    /\ sinks["warn"] = <<[level |-> "WARN", msg |-> "m1"]>>
    /\ sinks["info"] = <<[level |-> "INFO", msg |-> "failed: i"]>>
    /\ sinks["error"] = <<>>
    /\ Len(stdout) = 2

\* the outbound request carries the inbound request's method, body and, key
\* by key, its header values in their order
SameRequest(o, i) ==
    /\ o.Method = i.Method
    /\ o.Body = i.Body
    /\ DOMAIN o.Header = DOMAIN i.Header
    /\ \A key \in DOMAIN i.Header : o.Header[key] = i.Header[key]

\* C14: for every request with a valid token and an allowed role, the
\* outbound request built, and the one the upstream sees, carries the same
\* method and body as the inbound request and for every inbound header key
\* exactly the inbound values in their order, Authorization included.
C14_RequestPassthrough ==
    \A r \in Reqs :
        /\ out[r] # <<>> =>
              /\ Acceptable(r)
              /\ SameRequest(out[r][1], rin[r][1])
              /\ out[r][1].Header.Authorization = rin[r][1].Header.Authorization
              /\ out[r][1].Header.Authorization # <<>>
        /\ Forwarded(r) => up[r].seen = out[r] /\ out[r] # <<>>
        /\ (Acceptable(r) /\ ~BadPath(r) /\ rpc[r] # "proxy") => out[r] # <<>>

\* a POST with a body and a two-valued header reached the upstream
C14_Witness ==
    \E r \in Reqs :
        /\ Forwarded(r)
        /\ rin[r][1].Method = "POST"
        /\ up[r].seen[1].Body = "{}"
        /\ up[r].seen[1].Header.Accept = <<"a/b", "c/d">>
        /\ up[r].seen[1].Header.Authorization = Bearer(GoodTok("USER"))

\* the exchange with the upstream succeeded and the handler returned
Succeeded(r) == rpc[r] = "done" /\ up[r].resp # <<>> /\ diag[r] = 0

\* C15: on a successful exchange the client receives the upstream's status
\* code, the upstream's headers and the upstream's body, whole and unchanged,
\* with one status write; the headers were copied before the status was
\* written (they went out with it) and the status before the body (it is the
\* upstream's, not the one a first body write implies), also when the body
\* then fails to stream.
C15_RelayOrder ==
    \A r \in Reqs :
        /\ (up[r].resp # <<>> /\ rpc[r] \in {"return", "done"}) =>
              /\ rw[r].wrote
              /\ rw[r].status = up[r].resp[1].StatusCode
              /\ \A key \in RespKeys : rw[r].sentHdr[key] = up[r].resp[1].Header[key]
        /\ Succeeded(r) =>
              /\ rw[r].body = up[r].resp[1].Body
              /\ rw[r].whCalls = 1
              /\ rw[r].connOk

\* a 201 with two X-Up values and a body was relayed whole
C15_Witness ==
    \E r \in Reqs :
        /\ Succeeded(r)
        /\ rw[r].status = 201
        /\ rw[r].sentHdr["X-Up"] = <<"1", "2">>
        /\ rw[r].sentHdr["Content-Type"] = <<"application/json">>
        /\ rw[r].body = <<"{\"id\":42}">>

\* the consumer goroutine exists in a live process
Running == proc = "running" /\ Len(consumers) >= 1

\* nothing is queued, in a producer's hands or in the consumer's: every
\* record submitted so far was consumed and dealt with
Drained ==
    /\ \A k \in KindSet : Chan(k) = <<>> /\ recv[k] = sent[k]
    /\ \A t \in Tasks : sendq[t] = <<>>
    /\ \A c \in 1..Len(consumers) : consumers[c].cur = <<>>

Answered(r) == rpc[r] = "done" /\ rw[r].wrote

AllOpen == \A k \in KindSet : handles[k] = 1

\* the process ended inside main's StartListener, at one of the three opens
OpenFailed ==
    /\ proc = "exited"
    /\ startPc[MainTask] \in {"open1", "open2", "open3"}

\* C18: a sink that fails to open during start ends the process: no consumer
\* was or is ever spawned, the logger never gets Running, no route is
\* registered and no request handled; a consumer exists, a route is
\* registered, the listener is bound and a request is handled only in a
\* process whose three sinks are open; an ended process takes no step.
C18_OpenFailureFatal ==
    /\ [](OpenFailed =>
            /\ consumers = <<>>
            /\ ~once.done
            /\ ~AllOpen
            /\ mainPc = "starting"
            /\ routes = {}
            /\ \A r \in Reqs : rpc[r] = "idle" /\ rin[r] = <<>>)
    /\ [](( \/ Len(consumers) >= 1
            \/ once.done
            \/ routes # {}
            \/ mainPc \in {"listen", "serving"}
            \/ \E r \in Reqs : rpc[r] # "idle") => AllOpen)
    /\ [](startPc[MainTask] \in {"spawn", "once_done"} => AllOpen)
    /\ [][proc = "running"]_vars

\* the error sink was opened, the warning sink was not, the process ended
C18_Witness ==
    /\ OpenFailed
    /\ startPc[MainTask] = "open2"
    /\ handles["error"] = 1
    /\ handles["warn"] = 0

\* C19: when the handler of a request has returned, the upstream response
\* body was released exactly once if the dispatch returned a response,
\* whether the body was streamed whole or the copy failed, and never if the
\* dispatch failed or was not attempted; it is never released twice, and not
\* released while the handler still runs.
C19_BodyReleasedOnce ==
    \A r \in Reqs :
        /\ up[r].closed <= 1
        /\ rpc[r] = "done" =>
              up[r].closed = (IF up[r].resp # <<>> THEN 1 ELSE 0)
        /\ rpc[r] # "done" => up[r].closed = 0
        /\ up[r].resp # <<>> => Forwarded(r)

\* one request streamed whole and one whose copy failed have both returned,
\* each with its body released
C19_Witness ==
    \E r, q \in Reqs :
        /\ rpc[r] = "done" /\ up[r].resp # <<>> /\ diag[r] = 0 /\ up[r].closed = 1
        /\ rpc[q] = "done" /\ up[q].resp # <<>> /\ diag[q] = 1 /\ up[q].closed = 1

====
